---- MODULE Spec2Model ----
(***************************************************************************)
(* A model of the two programs of realsense2sdcard:                        *)
(*   rpi_streamer.cpp  the UDP streaming program (streaming mode),         *)
(*   10s-save.cpp      the ten-second capture to disk (persistence mode).  *)
(* Each program is the sequential main() of its file; pc is the position   *)
(* of main, and one action models one statement group of main.  The        *)
(* capture device, the socket and the clocks are the environment: their    *)
(* results are drawn with \E.                                              *)
(***************************************************************************)
EXTENDS Integers, Sequences, FiniteSets, TLC

(***************************************************************************)
(* Bounds of the model.                                                    *)
(***************************************************************************)
\* wait_for_frames calls of the streaming loop that return a frameset
MaxWaits == 3
\* framesets acquired by the capture loop of persistence mode
MaxSaveFrames == 3

(***************************************************************************)
(* Program constants.                                                      *)
(***************************************************************************)
\* rpi_streamer.cpp:108  if (total_size > 65507)
maxPayload == 65507
\* rpi_streamer.cpp:69 and 10s-save.cpp:54  for (i = 0; i < 30; ++i)
StabilizationFrames == 30
\* rpi_streamer.cpp:61-62  enable_stream(..., 424, 240, ...)
ConfigWidth == 424
ConfigHeight == 240
\* RS2_FORMAT_RGB8: 3 bytes per pixel; RS2_FORMAT_Z16: 2 bytes per pixel
ColorBpp == 3
DepthBpp == 2
\* 10s-save.cpp:62  capture_duration = std::chrono::seconds(10)
capture_duration == 10

(***************************************************************************)
(* struct NetworkFrame and sizeof(NetworkFrame).  The members are laid out *)
(* in declaration order, each at the next offset that its alignment        *)
(* divides, and the struct is padded to a multiple of its strictest        *)
(* alignment.  The alignment of uint64_t inside a struct is 8 on ARM EABI, *)
(* AArch64 and x86-64 and 4 on i386: it depends on the build (a64).        *)
(***************************************************************************)
FieldNames == <<"frame_id", "timestamp", "width", "height", "rgb_size", "depth_size">>
FieldSizes == <<4, 8, 2, 2, 4, 4>>
FieldAligns(a64) == <<4, a64, 2, 2, 4, 4>>

AlignUp(n, a) == ((n + a - 1) \div a) * a

RECURSIVE FieldOffset(_, _)
FieldOffset(k, a64) ==
    IF k = 1 THEN 0
    ELSE AlignUp(FieldOffset(k - 1, a64) + FieldSizes[k - 1], FieldAligns(a64)[k])

StructAlign(a64) ==
    CHOOSE m \in {FieldAligns(a64)[k] : k \in 1..Len(FieldSizes)} :
        \A k \in 1..Len(FieldSizes) : FieldAligns(a64)[k] <= m

SizeofNetworkFrame(a64) ==
    AlignUp(FieldOffset(Len(FieldSizes), a64) + FieldSizes[Len(FieldSizes)],
            StructAlign(a64))

\* the bytes of the struct that hold no member (padding)
PaddingBytes(a64) ==
    LET sum[k \in 0..Len(FieldSizes)] ==
            IF k = 0 THEN 0 ELSE sum[k - 1] + FieldSizes[k]
    IN  SizeofNetworkFrame(a64) - sum[Len(FieldSizes)]

(***************************************************************************)
(* Frames delivered by the device.                                         *)
(***************************************************************************)
\* get_data_size() of a video frame: width * height * bytes per pixel
DataSize(width, height, bpp) == width * height * bpp

\* The frame dimensions are read from the frame at run time (lines 87-90).
\* The configured profile is 424x240; a quarter-size frame is also drawn so
\* that the single-datagram branch of the loop is exercised.
FrameDims == { <<ConfigWidth, ConfigHeight>>, <<ConfigWidth \div 4, ConfigHeight \div 4>> }

NoFrames == [color |-> FALSE, depth |-> FALSE, width |-> 0, height |-> 0]

\* framesets wait_for_frames can return: both frames, or one, or none
Framesets ==
    { [color |-> TRUE, depth |-> TRUE, width |-> d[1], height |-> d[2]] : d \in FrameDims }
    \cup { [color |-> cd[1], depth |-> cd[2], width |-> ConfigWidth, height |-> ConfigHeight] :
             cd \in {<<TRUE, FALSE>>, <<FALSE, TRUE>>, <<FALSE, FALSE>>} }

\* time that passes while wait_for_frames blocks, in milliseconds
Delays == {33, 1000}

NoHeader == [frame_id |-> 0, timestamp |-> 0, width |-> 0, height |-> 0,
             rgb_size |-> 0, depth_size |-> 0]

(***************************************************************************)
(* State.                                                                  *)
(***************************************************************************)
VARIABLES
    prog,           \* which program runs: "rpi_streamer" or "10s-save"
    pc,             \* position of main
    argc,           \* rpi_streamer: number of command-line words
    ip_valid,       \* rpi_streamer: whether inet_pton accepts argv[1]
    align64,        \* the build's alignment of uint64_t in a struct
    sndbuf_full,    \* whether the socket's send buffer has no room for the datagram
    sock,           \* "none", "open", "closed"
    server_addr,    \* "unset", "zero" (memset only), "set" (inet_pton stored it)
    pipe,           \* "idle", "started", "released"
    i,              \* the stabilization loop counter
    discarded,      \* framesets acquired and discarded by stabilization
    frame_count,    \* uint32_t frame_count (streamer), int frame_count (save)
    last_fps_time,  \* steady_clock time of the last report, ms
    fps_counter,    \* int fps_counter
    now,            \* the clock, ms
    frames,         \* the frameset of the current iteration
    header,         \* NetworkFrame header of the current iteration
    total_size,     \* size_t total_size of the current iteration
    acquired,       \* history: framesets returned by the loop's wait_for_frames
    built,          \* history: headers built by the loop
    sent,           \* history: datagrams handed to sendto, with sendto's result
    window_ok,      \* history: sendto successes since the last report
    reports,        \* history: per report, the count printed and the successes
    log,            \* history: lines written to stdout / stderr
    status,         \* "running", "exited", "aborted", "killed"
    exit_code,      \* the exit status once status = "exited"
    released,       \* history: handles released, in order
    device_error,   \* where an rs2::error was raised: "none", "start", "stabilize", "stream"
    stop_at,        \* the pc at which a stop signal arrived, or "none"
    start_time,     \* 10s-save: start_time, ms
    current_time,   \* 10s-save: current_time of the current iteration, ms
    timestamp,      \* 10s-save: timestamp of the current iteration, ms
    files           \* 10s-save: history of the files written, each with its frameset

vars == <<prog, pc, argc, ip_valid, align64, sndbuf_full, sock, server_addr, pipe, i, discarded,
          frame_count, last_fps_time, fps_counter, now, frames, header, total_size,
          acquired, built, sent, window_ok, reports, log, status, exit_code, released,
          device_error, stop_at, start_time, current_time, timestamp, files>>

\* groups of variables an action leaves alone
envVars == <<prog, argc, ip_valid, align64, sndbuf_full>>
saveVars == <<start_time, current_time, timestamp, files>>
loopVars == <<frames, header, total_size, acquired, built, sent, window_ok, reports>>
fpsVars == <<last_fps_time, fps_counter>>
exitVars == <<status, exit_code, released, stop_at>>

Line(kind, frame) == [kind |-> kind, frame |-> frame]

\* the exit status of "return r" from main: the low 8 bits of r
ExitStatus(r) == r % 256

Init ==
    /\ prog \in {"rpi_streamer", "10s-save"}
    /\ pc = IF prog = "rpi_streamer" THEN "args" ELSE "s_dirs"
    /\ argc \in IF prog = "rpi_streamer" THEN {1, 2} ELSE {1}
    /\ ip_valid \in IF prog = "rpi_streamer" THEN BOOLEAN ELSE {TRUE}
    /\ align64 \in IF prog = "rpi_streamer" THEN {4, 8} ELSE {8}
    /\ sndbuf_full = FALSE
    /\ sock = "none"
    /\ server_addr = "unset"
    /\ pipe = "idle"
    /\ i = 0
    /\ discarded = 0
    /\ frame_count = 0
    /\ last_fps_time = 0
    /\ fps_counter = 0
    /\ now = 0
    /\ frames = NoFrames
    /\ header = NoHeader
    /\ total_size = 0
    /\ acquired = <<>>
    /\ built = <<>>
    /\ sent = <<>>
    /\ window_ok = 0
    /\ reports = <<>>
    /\ log = <<>>
    /\ status = "running"
    /\ exit_code = 0
    /\ released = <<>>
    /\ device_error = "none"
    /\ stop_at = "none"
    /\ start_time = 0
    /\ current_time = 0
    /\ timestamp = 0
    /\ files = {}

(***************************************************************************)
(* rpi_streamer.cpp: main.                                                 *)
(***************************************************************************)
Streamer(at) == prog = "rpi_streamer" /\ status = "running" /\ pc = at

\* lines 31-34: the usage check
CheckArgs ==
    /\ Streamer("args")
    /\ IF argc # 2
       THEN /\ log' = Append(log, Line("usage", 0))
            /\ status' = "exited"
            /\ exit_code' = ExitStatus(-1)
            /\ pc' = "done"
       ELSE /\ pc' = "socket"
            /\ UNCHANGED <<log, status, exit_code>>
    /\ UNCHANGED <<envVars, saveVars, loopVars, fpsVars, sock, server_addr, pipe, i,
                   discarded, frame_count, now, released, device_error, stop_at>>

\* lines 40-44: socket(AF_INET, SOCK_DGRAM, 0)
CreateSocket ==
    /\ Streamer("socket")
    /\ \E ok \in BOOLEAN :
          IF ok
          THEN /\ sock' = "open"
               /\ pc' = "setup"
               /\ UNCHANGED <<log, status, exit_code>>
          ELSE /\ log' = Append(log, Line("perror socket", 0))
               /\ status' = "exited"
               /\ exit_code' = ExitStatus(-1)
               /\ pc' = "done"
               /\ UNCHANGED sock
    /\ UNCHANGED <<envVars, saveVars, loopVars, fpsVars, server_addr, pipe, i,
                   discarded, frame_count, now, released, device_error, stop_at>>

\* lines 47-62: setsockopt, memset, inet_pton (its result is not looked at),
\* and the stream configuration
ConfigureSocket ==
    /\ Streamer("setup")
    /\ server_addr' = IF ip_valid THEN "set" ELSE "zero"
    /\ pc' = "pipe_start"
    /\ UNCHANGED <<envVars, saveVars, loopVars, fpsVars, exitVars, sock, pipe, i,
                   discarded, frame_count, now, log, device_error>>

\* lines 64-66: pipe.start(cfg), which may throw rs2::error
PipeStart ==
    /\ Streamer("pipe_start")
    /\ \E ok \in BOOLEAN :
          IF ok
          THEN /\ pipe' = "started"
               /\ log' = Append(log, Line("started", 0))
               /\ pc' = "stabilize"
               /\ UNCHANGED device_error
          ELSE /\ device_error' = "start"
               /\ pc' = "catch"
               /\ UNCHANGED <<pipe, log>>
    /\ UNCHANGED <<envVars, saveVars, loopVars, fpsVars, exitVars, sock, server_addr,
                   i, discarded, frame_count, now>>

StabilizeContinue_short(k) == k < StabilizationFrames - 1

\* line 69: the loop condition i < 30
StabilizeContinue(k) == k < StabilizationFrames

\* line 69: one pipe.wait_for_frames() of the stabilization loop
Stabilize ==
    /\ Streamer("stabilize")
    /\ StabilizeContinue(i)
    /\ \E ok \in BOOLEAN :
          IF ok
          THEN /\ i' = i + 1
               /\ discarded' = discarded + 1
               /\ UNCHANGED <<pc, device_error>>
          ELSE /\ device_error' = "stabilize"
               /\ pc' = "catch"
               /\ UNCHANGED <<i, discarded>>
    /\ UNCHANGED <<envVars, saveVars, loopVars, fpsVars, exitVars, sock, server_addr,
                   pipe, frame_count, now, log>>

\* lines 71-73: the loop's variables
InitLoop ==
    /\ Streamer("stabilize")
    /\ ~StabilizeContinue(i)
    /\ frame_count' = 0
    /\ last_fps_time' = now
    /\ fps_counter' = 0
    /\ pc' = "wait"
    /\ UNCHANGED <<envVars, saveVars, loopVars, exitVars, sock, server_addr, pipe, i,
                   discarded, now, log, device_error>>

HasBoth_colorOnly(fs) == fs.color

\* line 80: if (!color || !depth) continue;
HasBoth(fs) == fs.color /\ fs.depth

\* lines 75-80: wait_for_frames, which blocks and may throw rs2::error
WaitForFrames ==
    /\ Streamer("wait")
    /\ Len(acquired) < MaxWaits
    /\ \E d \in Delays :
          /\ now' = now + d
          /\ \/ /\ device_error' = "stream"
                /\ pc' = "catch"
                /\ UNCHANGED <<frames, acquired>>
             \/ \E fs \in Framesets :
                   /\ frames' = fs
                   /\ acquired' = Append(acquired, fs)
                   /\ pc' = IF HasBoth(fs) THEN "header" ELSE "wait"
                   /\ UNCHANGED device_error
    /\ UNCHANGED <<envVars, saveVars, fpsVars, exitVars, header, total_size, built,
                   sent, window_ok, reports, sock, server_addr, pipe, i, discarded,
                   frame_count, log>>

PostIncrement_none(fc) == fc

\* line 84: frame_count++ (the value before the increment is the frame_id)
PostIncrement(fc) == fc + 1

\* lines 83-90: the header
BuildHeader ==
    /\ Streamer("header")
    /\ header' = [frame_id   |-> frame_count,
                  timestamp  |-> now,
                  width      |-> frames.width,
                  height     |-> frames.height,
                  rgb_size   |-> DataSize(frames.width, frames.height, ColorBpp),
                  depth_size |-> DataSize(frames.width, frames.height, DepthBpp)]
    /\ frame_count' = PostIncrement(frame_count)
    /\ pc' = "packet"
    /\ UNCHANGED <<envVars, saveVars, fpsVars, exitVars, frames, total_size, acquired,
                   built, sent, window_ok, reports, sock, server_addr, pipe, i,
                   discarded, now, log, device_error>>

\* line 93: total_size
TotalSize(a64, h) == SizeofNetworkFrame(a64) + h.rgb_size + h.depth_size

\* lines 97-105: where the three memcpy calls put the header and the payloads
PacketLayout(a64, h) ==
    [header_len |-> SizeofNetworkFrame(a64),
     rgb_at     |-> SizeofNetworkFrame(a64),
     depth_at   |-> SizeofNetworkFrame(a64) + h.rgb_size,
     len        |-> TotalSize(a64, h)]

\* lines 93-105: total_size, the packet buffer and the three copies.
\* std::vector may throw std::bad_alloc, which no handler of main catches:
\* std::terminate ends the process, and whether the stack is unwound first
\* (the destructor of pipe run) is left to the implementation; close(sock)
\* at line 135 is not reached either way.
BuildPacket ==
    /\ Streamer("packet")
    /\ total_size' = TotalSize(align64, header)
    /\ \E ok \in BOOLEAN :
          IF ok
          THEN /\ built' = Append(built, header)
               /\ pc' = "check_size"
               /\ UNCHANGED <<status, log, pipe, released>>
          ELSE /\ log' = Append(log, Line("terminate bad_alloc", header.frame_id))
               /\ status' = "aborted"
               /\ pc' = "done"
               /\ \E unwound \in BOOLEAN :
                     IF unwound
                     THEN /\ pipe' = "released"
                          /\ released' = Append(released, "pipe")
                     ELSE UNCHANGED <<pipe, released>>
               /\ UNCHANGED built
    /\ UNCHANGED <<envVars, saveVars, fpsVars, frames, header, acquired, sent,
                   window_ok, reports, sock, server_addr, i, discarded, frame_count,
                   now, exit_code, device_error, stop_at>>

IsOversize_never(size) == FALSE

\* line 108: if (total_size > 65507)
IsOversize(size) == size > maxPayload

\* lines 108-111: the oversize check
CheckSize ==
    /\ Streamer("check_size")
    /\ IF IsOversize(total_size)
       THEN /\ log' = Append(log, Line("warning too large", header.frame_id))
            /\ pc' = "wait"
       ELSE /\ pc' = "sendto"
            /\ UNCHANGED log
    /\ UNCHANGED <<envVars, saveVars, loopVars, fpsVars, exitVars, sock, server_addr,
                   pipe, i, discarded, frame_count, now, device_error>>

SendFailed_zero(ret) == ret = 0

\* line 116: if (sent < 0)
SendFailed(ret) == ret < 0

\* lines 40 and 113-114: the socket is created without SOCK_NONBLOCK, no
\* O_NONBLOCK is set on it and sendto is called with flags 0: while the send
\* buffer has no room for the datagram the call sleeps
SendToReturns(full) == ~full

\* the send buffer fills up (queued datagrams not yet transmitted) while the
\* loop is at its sendto call
BufferFills ==
    /\ Streamer("sendto")
    /\ ~sndbuf_full
    /\ sndbuf_full' = TRUE
    /\ UNCHANGED <<prog, argc, ip_valid, align64, saveVars, loopVars, fpsVars,
                   exitVars, pc, sock, server_addr, pipe, i, discarded, frame_count,
                   now, log, device_error>>

\* the network interface transmits queued datagrams and the buffer has room again
BufferDrains ==
    /\ Streamer("sendto")
    /\ sndbuf_full
    /\ sndbuf_full' = FALSE
    /\ UNCHANGED <<prog, argc, ip_valid, align64, saveVars, loopVars, fpsVars,
                   exitVars, pc, sock, server_addr, pipe, i, discarded, frame_count,
                   now, log, device_error>>

\* lines 113-118: sendto and the report of its failure
SendTo ==
    /\ Streamer("sendto")
    /\ SendToReturns(sndbuf_full)
    /\ \E ret \in {total_size, -1} :
          /\ sent' = Append(sent, [frame_id |-> header.frame_id, len |-> total_size,
                                   rgb_size |-> header.rgb_size,
                                   depth_size |-> header.depth_size, ret |-> ret])
          /\ window_ok' = IF ret >= 0 THEN window_ok + 1 ELSE window_ok
          /\ log' = IF SendFailed(ret)
                    THEN Append(log, Line("perror sendto", header.frame_id))
                    ELSE log
    /\ pc' = "fps"
    /\ UNCHANGED <<envVars, saveVars, fpsVars, exitVars, frames, header, total_size,
                   acquired, built, reports, sock, server_addr, pipe, i, discarded,
                   frame_count, now, device_error>>

\* line 123: duration_cast<seconds>(now - last_fps_time).count() >= 1
WindowElapsed(t, last) == (t - last) \div 1000 >= 1

\* lines 121-128: the throughput counter and the report
FpsMonitor ==
    /\ Streamer("fps")
    /\ LET counted == fps_counter + 1
       IN  IF WindowElapsed(now, last_fps_time)
           THEN /\ log' = Append(log, Line("fps report", counted))
                /\ fps_counter' = 0
                /\ last_fps_time' = now
                /\ reports' = Append(reports, [count |-> counted, ok |-> window_ok])
                /\ window_ok' = 0
           ELSE /\ fps_counter' = counted
                /\ UNCHANGED <<log, last_fps_time, window_ok, reports>>
    /\ pc' = "wait"
    /\ UNCHANGED <<envVars, saveVars, exitVars, frames, header, total_size, acquired,
                   built, sent, sock, server_addr, pipe, i, discarded, frame_count, now,
                   device_error>>

\* lines 131-133: catch (const rs2::error&)
Catch ==
    /\ Streamer("catch")
    /\ log' = Append(log, Line("RealSense error", 0))
    /\ pc' = "close"
    /\ UNCHANGED <<envVars, saveVars, loopVars, fpsVars, exitVars, sock, server_addr,
                   pipe, i, discarded, frame_count, now, device_error>>

\* line 135: close(sock)
CloseSock ==
    /\ Streamer("close")
    /\ sock' = "closed"
    /\ released' = Append(released, "sock")
    /\ pc' = "return"
    /\ UNCHANGED <<envVars, saveVars, loopVars, fpsVars, server_addr, pipe, i,
                   discarded, frame_count, now, log, status, exit_code, device_error,
                   stop_at>>

\* lines 136-137: return 0; the destructor of pipe then stops a started pipeline
Return ==
    /\ Streamer("return")
    /\ IF pipe = "started"
       THEN /\ pipe' = "released"
            /\ released' = Append(released, "pipe")
       ELSE UNCHANGED <<pipe, released>>
    /\ status' = "exited"
    /\ exit_code' = ExitStatus(0)
    /\ pc' = "done"
    /\ UNCHANGED <<envVars, saveVars, loopVars, fpsVars, sock, server_addr, i,
                   discarded, frame_count, now, log, device_error, stop_at>>

\* main installs no signal handler and its loop tests no stop flag: a stop
\* signal (SIGINT, SIGTERM) takes its default action and kills the process
\* where it is; nothing of main runs after it.
StopSignal ==
    /\ prog = "rpi_streamer"
    /\ status = "running"
    /\ stop_at' = pc
    /\ status' = "killed"
    /\ UNCHANGED <<envVars, saveVars, loopVars, fpsVars, pc, sock, server_addr, pipe,
                   i, discarded, frame_count, now, log, exit_code, released,
                   device_error>>

StreamerNext ==
    \/ CheckArgs \/ CreateSocket \/ ConfigureSocket \/ PipeStart \/ Stabilize
    \/ InitLoop \/ WaitForFrames \/ BuildHeader \/ BuildPacket \/ CheckSize
    \/ BufferFills \/ BufferDrains \/ SendTo \/ FpsMonitor \/ Catch \/ CloseSock \/ Return \/ StopSignal

(***************************************************************************)
(* 10s-save.cpp: create_filename and main.                                 *)
(***************************************************************************)
Digit(d) == <<"0", "1", "2", "3", "4", "5", "6", "7", "8", "9">>[d + 1]

\* operator<< of a non-negative integer: its decimal digits
RECURSIVE Decimal(_)
Decimal(n) == IF n < 10 THEN <<Digit(n)>> ELSE Append(Decimal(n \div 10), Digit(n % 10))

\* std::setfill('0') << std::setw(w): zeros on the left up to width w
RECURSIVE PadLeft(_, _)
PadLeft(ds, w) == IF Len(ds) >= w THEN ds ELSE PadLeft(<<"0">> \o ds, w)

\* lines 150-157: the path, as the sequence of the pieces written to the stream
create_filename(base_dir, stream_name, frame_number, ts, extension) ==
    <<base_dir, "/frame_">> \o PadLeft(Decimal(frame_number), 6) \o <<"_">>
        \o Decimal(ts) \o <<"_", stream_name, extension>>

Saver(at) == prog = "10s-save" /\ status = "running" /\ pc = at

\* framesets of persistence mode: the frames of the two enabled streams
SaveFramesets ==
    { [color |-> c, depth |-> d, width |-> 640, height |-> 480] : c \in BOOLEAN, d \in BOOLEAN }

\* time that passes while wait_for_frames blocks in persistence mode, ms
SaveDelays == {0, 33, 5000}

\* lines 31-34: the output directories
SaveCreateDirs ==
    /\ Saver("s_dirs")
    /\ pc' = "s_start"
    /\ UNCHANGED <<envVars, saveVars, loopVars, fpsVars, exitVars, sock, server_addr,
                   pipe, i, discarded, frame_count, now, log, device_error>>

\* line 48: pipe.start(cfg)
SavePipeStart ==
    /\ Saver("s_start")
    /\ \E ok \in BOOLEAN :
          IF ok
          THEN /\ pipe' = "started"
               /\ pc' = "s_stabilize"
               /\ UNCHANGED device_error
          ELSE /\ device_error' = "start"
               /\ pc' = "s_catch"
               /\ UNCHANGED pipe
    /\ UNCHANGED <<envVars, saveVars, loopVars, fpsVars, exitVars, sock, server_addr,
                   i, discarded, frame_count, now, log>>

\* line 54: the loop condition i < 30
SaveStabilizeContinue(k) == k < StabilizationFrames

\* lines 54-57: one wait_for_frames of the stabilization loop and its progress line
SaveStabilize ==
    /\ Saver("s_stabilize")
    /\ SaveStabilizeContinue(i)
    /\ \E ok \in BOOLEAN :
          IF ok
          THEN /\ i' = i + 1
               /\ discarded' = discarded + 1
               /\ log' = Append(log, Line("Stabilizing", i + 1))
               /\ UNCHANGED <<pc, device_error>>
          ELSE /\ device_error' = "stabilize"
               /\ pc' = "s_catch"
               /\ UNCHANGED <<i, discarded, log>>
    /\ UNCHANGED <<envVars, saveVars, loopVars, fpsVars, exitVars, sock, server_addr,
                   pipe, frame_count, now>>

\* lines 61-66: start_time and frame_count
SaveInitLoop ==
    /\ Saver("s_stabilize")
    /\ ~SaveStabilizeContinue(i)
    /\ start_time' = now
    /\ frame_count' = 0
    /\ pc' = "s_check"
    /\ UNCHANGED <<envVars, loopVars, fpsVars, exitVars, current_time, timestamp,
                   files, sock, server_addr, pipe, i, discarded, now, log,
                   device_error>>

CaptureOver_strict(elapsed) == elapsed > capture_duration * 1000

\* line 74: elapsed >= capture_duration (elapsed in ms, capture_duration in s)
CaptureOver(elapsed) == elapsed >= capture_duration * 1000

\* lines 70-80: the deadline check at the head of the loop, and the timestamp
SaveCheckTime ==
    /\ Saver("s_check")
    /\ current_time' = now
    /\ IF CaptureOver(current_time' - start_time)
       THEN /\ pc' = "s_finish"
            /\ UNCHANGED timestamp
       ELSE /\ timestamp' = now
            /\ pc' = "s_wait"
    /\ UNCHANGED <<envVars, loopVars, fpsVars, exitVars, start_time, files, sock,
                   server_addr, pipe, i, discarded, frame_count, now, log,
                   device_error>>

NextFrameNumber_same(fc) == fc

\* line 84: frame_count++
NextFrameNumber(fc) == fc + 1

\* lines 83-84: wait_for_frames and frame_count++
SaveWait ==
    /\ Saver("s_wait")
    /\ Len(acquired) < MaxSaveFrames
    /\ \E d \in SaveDelays :
          /\ now' = now + d
          /\ \/ /\ device_error' = "stream"
                /\ pc' = "s_catch"
                /\ UNCHANGED <<frames, acquired, frame_count>>
             \/ \E fs \in SaveFramesets :
                   /\ frames' = fs
                   /\ acquired' = Append(acquired, fs)
                   /\ frame_count' = NextFrameNumber(frame_count)
                   /\ pc' = "s_write"
                   /\ UNCHANGED device_error
    /\ UNCHANGED <<envVars, saveVars, fpsVars, exitVars, header, total_size, built,
                   sent, window_ok, reports, sock, server_addr, pipe, i, discarded,
                   log>>

\* lines 93-101: the files of a color frame
ColorFiles(n, ts) ==
    { create_filename("captured_data/rgb", "color", n, ts, ".png"),
      create_filename("captured_data/metadata", "color", n, ts, "_metadata.csv") }

\* lines 103-117: the files of a depth frame
DepthFiles(n, ts) ==
    { create_filename("captured_data/depth", "depth", n, ts, ".png"),
      create_filename("captured_data/depth", "depth_colorized", n, ts, ".png"),
      create_filename("captured_data/metadata", "depth", n, ts, "_metadata.csv") }

\* lines 87-120: the files written for the frames of the frameset; each
\* write is recorded with the ordinal of the frameset it belongs to
SaveWrite ==
    /\ Saver("s_write")
    /\ LET paths == (IF frames.color THEN ColorFiles(frame_count, timestamp) ELSE {})
                    \cup (IF frames.depth THEN DepthFiles(frame_count, timestamp) ELSE {})
       IN  files' = files \cup { [path |-> p, frameset |-> Len(acquired)] : p \in paths }
    /\ pc' = "s_progress"
    /\ UNCHANGED <<envVars, loopVars, fpsVars, exitVars, start_time, current_time,
                   timestamp, sock,
                   server_addr, pipe, i, discarded, frame_count, now, log,
                   device_error>>

\* lines 123-127: the progress line every 30 frames
SaveProgress ==
    /\ Saver("s_progress")
    /\ log' = IF frame_count % 30 = 0
              THEN Append(log, Line("progress", frame_count))
              ELSE log
    /\ pc' = "s_check"
    /\ UNCHANGED <<envVars, saveVars, loopVars, fpsVars, exitVars, sock, server_addr,
                   pipe, i, discarded, frame_count, now, device_error>>

\* lines 130-137: the summary and return EXIT_SUCCESS; pipe is destroyed
SaveFinish ==
    /\ Saver("s_finish")
    /\ log' = Append(log, Line("Capture complete", frame_count))
    /\ pipe' = "released"
    /\ released' = Append(released, "pipe")
    /\ status' = "exited"
    /\ exit_code' = ExitStatus(0)
    /\ pc' = "done"
    /\ UNCHANGED <<envVars, saveVars, loopVars, fpsVars, sock, server_addr, i,
                   discarded, frame_count, now, device_error, stop_at>>

\* lines 139-143: catch (const rs2::error&) of the function-try-block, entered
\* after the locals of main are destroyed; return EXIT_FAILURE
SaveCatch ==
    /\ Saver("s_catch")
    /\ log' = Append(log, Line("RealSense error", 0))
    /\ IF pipe = "started"
       THEN /\ pipe' = "released"
            /\ released' = Append(released, "pipe")
       ELSE UNCHANGED <<pipe, released>>
    /\ status' = "exited"
    /\ exit_code' = ExitStatus(1)
    /\ pc' = "done"
    /\ UNCHANGED <<envVars, saveVars, loopVars, fpsVars, sock, server_addr, i,
                   discarded, frame_count, now, device_error, stop_at>>

SaveNext ==
    \/ SaveCreateDirs \/ SavePipeStart \/ SaveStabilize \/ SaveInitLoop
    \/ SaveCheckTime \/ SaveWait \/ SaveWrite \/ SaveProgress \/ SaveFinish
    \/ SaveCatch

Next == StreamerNext \/ SaveNext

(***************************************************************************)
(* The streamer with its device as configured at lines 61-62: every frame  *)
(* of a frameset is 424x240.  The steps after the size check that this     *)
(* configuration never enables (sendto, the throughput block) are left out *)
(* of the next-state relation; that they are never reached is checked.     *)
(***************************************************************************)
InitConfigured == Init /\ prog = "rpi_streamer"

ConfiguredWait ==
    /\ WaitForFrames
    /\ acquired' # acquired =>
          (frames'.width = ConfigWidth /\ frames'.height = ConfigHeight)

NextConfigured ==
    \/ CheckArgs \/ CreateSocket \/ ConfigureSocket \/ PipeStart \/ Stabilize
    \/ InitLoop \/ ConfiguredWait \/ BuildHeader \/ BuildPacket \/ CheckSize
    \/ Catch \/ CloseSock \/ Return \/ StopSignal

(***************************************************************************)
(* Properties.                                                             *)
(***************************************************************************)
Streaming == prog = "rpi_streamer"
LoopPcs == {"wait", "header", "packet", "check_size", "sendto", "fps"}
BeforeLoopPcs == {"args", "socket", "setup", "pipe_start", "stabilize",
                  "s_dirs", "s_start", "s_stabilize"}

CeilDiv(a, b) == (a + b - 1) \div b
Indices(q) == 1..Len(q)
DatagramsOf(id) == {j \in Indices(sent) : sent[j].frame_id = id}
Logged(kind, id) == \E j \in Indices(log) : log[j] = Line(kind, id)
Complete(fs) == fs.color /\ fs.depth
CompleteAcquired == Cardinality({k \in Indices(acquired) : Complete(acquired[k])})
TooLarge(h) == TotalSize(align64, h) > maxPayload
\* the largest slice of a fragment: 65,507 less the 24 bytes the
\* specification reserves for the fragment header (65,483)
maxFragmentPayload == maxPayload - 24

\* C1: every frame pair whose header + rgb_size + depth_size exceeds
\* maxPayload is handed to the transport as ceil(total / maxFragmentPayload)
\* datagrams carrying its frame_id (so a 424x240 frame gives at least 8 and
\* is not discarded), by the time the loop is back at its head.
C1_OversizeFragmented ==
    (Streaming /\ pc = "wait") =>
        \A k \in Indices(built) :
            TooLarge(built[k]) =>
                Cardinality(DatagramsOf(built[k].frame_id))
                    = CeilDiv(TotalSize(align64, built[k]), maxFragmentPayload)

\* C2: every datagram handed to sendto has the full length
\* sizeof(header) + rgb_size + depth_size of its frame and at most 65,507
\* bytes; no datagram is ever handed over for a frame larger than that, and
\* each such frame has its warning printed when the loop is back at its head.
C2_NoSilentTruncation ==
    Streaming =>
        /\ \A j \in Indices(sent) :
              /\ sent[j].len = SizeofNetworkFrame(align64) + sent[j].rgb_size
                                   + sent[j].depth_size
              /\ sent[j].len <= maxPayload
        /\ \A k \in Indices(built) :
              TooLarge(built[k]) =>
                  /\ DatagramsOf(built[k].frame_id) = {}
                  /\ (pc = "wait" => Logged("warning too large", built[k].frame_id))

\* C2 witness: at the head of the loop after a datagram was handed over and
\* an oversize frame was reported
C2_Witness ==
    /\ Streaming /\ pc = "wait"
    /\ sent # <<>>
    /\ \E k \in Indices(built) :
          TooLarge(built[k]) /\ Logged("warning too large", built[k].frame_id)

\* C3: in streaming mode a process that exits after the device raised an
\* rs2::error (from pipe.start, stabilization or the loop) exits with a
\* nonzero code; exit code 0 is produced only without a device error.
C3_DeviceErrorExitsNonzero ==
    (Streaming /\ status = "exited" /\ device_error # "none") => exit_code # 0

\* C4: a sendto that returns a negative value is not fatal: the step prints
\* a diagnostic and goes on to the throughput monitor with the session
\* running; the loop then returns to wait_for_frames without handing that
\* packet to sendto again, and the next header built is of a new frameset.
C4_SendFailureNonFatal ==
    [][ /\ (pc = "sendto" /\ sent' # sent /\ sent'[Len(sent')].ret < 0) =>
            /\ status' = "running"
            /\ pc' = "fps"
            /\ device_error' = "none"
            /\ Len(sent') = Len(sent) + 1
            /\ log' = Append(log, Line("perror sendto", header.frame_id))
        /\ (pc = "fps" /\ sent # <<>> /\ sent[Len(sent)].ret < 0 /\ pc' # pc) =>
            /\ status' = "running"
            /\ pc' = "wait"
            /\ sent' = sent
        /\ (pc = "wait" /\ pc' = "header" /\ sent # <<>> /\ sent[Len(sent)].ret < 0) =>
            /\ Len(acquired') = Len(acquired) + 1
            /\ sent' = sent
      ]_vars

\* C4 witness: a frame was acquired and its header built after a sendto failed
C4_Witness ==
    /\ Streaming /\ pc = "packet" /\ status = "running"
    /\ sent # <<>> /\ sent[Len(sent)].ret < 0
    /\ header.frame_id > sent[Len(sent)].frame_id
    /\ Logged("perror sendto", sent[Len(sent)].frame_id)

C6_IdPerSuccessfulWait ==
    (Streaming /\ pc = "wait") => frame_count = Len(acquired)

\* C6 amended: frame_ids start at 0 and increase by exactly 1 for each
\* wait_for_frames call that returns a frameset holding both a color and a
\* depth frame; a frameset lacking either is assigned no frame_id.
C6_IdPerCompleteFrameset ==
    Streaming =>
        /\ (pc = "wait" => frame_count = CompleteAcquired)
        /\ (pc = "header" => frame_count = CompleteAcquired - 1)
        /\ (pc \in {"packet", "check_size", "sendto", "fps"} =>
                /\ header.frame_id = CompleteAcquired - 1
                /\ frame_count = CompleteAcquired)
        /\ \A k \in Indices(built) : built[k].frame_id = k - 1

\* C6 witness: a second frame_id assigned after an incomplete frameset
C6_Witness ==
    /\ Streaming /\ pc = "packet"
    /\ header.frame_id = 1
    /\ \E k \in Indices(acquired) : ~Complete(acquired[k])

\* C7: stabilization discards exactly 30 framesets before any frame is
\* assigned a frame_id, packetized, sent, counted or saved: nothing is sent
\* or written up to the end of the phase, and the phase is left with fewer
\* than 30 discards only by a device error.
C7_StabilizationFirst ==
    /\ discarded <= 30
    /\ discarded = i
    /\ pc \in BeforeLoopPcs =>
          /\ sent = <<>> /\ files = {} /\ built = <<>> /\ acquired = <<>>
          /\ frame_count = 0 /\ fps_counter = 0 /\ reports = <<>>
    /\ (sent # <<>> \/ files # {} \/ built # <<>> \/ acquired # <<>>
            \/ frame_count # 0 \/ fps_counter # 0) => discarded = 30
    /\ (pc \notin BeforeLoopPcs /\ pipe # "idle"
            /\ device_error \notin {"start", "stabilize"}) => discarded = 30

\* C7 witness: a datagram handed over after the 30 discards
C7_Witness ==
    /\ Streaming /\ sent # <<>> /\ discarded = 30

\* C8: the header of every packet is 24 bytes with no padding, the color
\* payload is at offset 24, the depth payload at 24 + rgb_size and the packet
\* is 24 + rgb_size + depth_size bytes long.
C8_Header24Bytes ==
    (Streaming /\ pc \in {"check_size", "sendto", "fps"}) =>
        LET lay == PacketLayout(align64, header)
        IN  /\ lay.header_len = 24
            /\ PaddingBytes(align64) = 0
            /\ lay.rgb_at = 24
            /\ lay.depth_at = 24 + header.rgb_size
            /\ lay.len = 24 + header.rgb_size + header.depth_size
            /\ total_size = lay.len

\* C9: fps_counter counts exactly the packets whose sendto returned a
\* non-negative value: at the head of the loop it equals the successes since
\* the last report, and every report prints the successes of its window.
C9_CounterCountsSuccesses ==
    Streaming =>
        /\ (pc = "wait" => fps_counter = window_ok)
        /\ \A r \in Indices(reports) : reports[r].count = reports[r].ok

\* C10: a stop signal that arrives while the session is in the streaming loop
\* ends the process by exit code 0 with the socket closed and the pipeline
\* released.
C10_StopExitsCleanly ==
    (Streaming /\ stop_at \in LoopPcs /\ status # "running") =>
        /\ status = "exited"
        /\ exit_code = 0
        /\ sock = "closed"
        /\ pipe = "released"

\* C11: if inet_pton does not accept the destination address, or socket
\* creation fails, the session stops there: the capture device is never
\* started and nothing is ever handed to sendto.
C11_BadTransportStopsSession ==
    (Streaming /\ (~ip_valid \/ Logged("perror socket", 0))) =>
        /\ pipe = "idle"
        /\ pc \notin {"stabilize"} \cup LoopPcs
        /\ sent = <<>>

\* C12: when the process has exited with both handles released, the capture
\* pipeline (opened last) was released before the socket (opened first).
C12_ReverseOrderClose ==
    (Streaming /\ status = "exited" /\ Len(released) = 2) =>
        released = <<"pipe", "sock">>

\* C13: the network never blocks the loop: whenever the loop is at its sendto
\* call, the call can return (with success or failure), also when the send
\* buffer is full.
C13_SendNeverBlocks ==
    (Streaming /\ status = "running" /\ pc = "sendto") => ENABLED SendTo

\* C14: an iteration of the streaming loop that starts when at least one
\* second has passed since the last report emits a report and resets
\* fps_counter to 0 before the loop is back at its head, whatever its frameset
\* was: here for an iteration that is over in one step (a frameset lacking a
\* frame) and for one that ends in the throughput block.
C14_ReportEveryWindow ==
    [][ /\ (Streaming /\ pc = "wait" /\ WindowElapsed(now, last_fps_time)
                /\ acquired' # acquired /\ pc' = "wait") =>
            (Len(reports') = Len(reports) + 1 /\ fps_counter' = 0)
        /\ (Streaming /\ pc = "fps" /\ WindowElapsed(now, last_fps_time)
                /\ pc' = "wait") =>
            (Len(reports') = Len(reports) + 1 /\ fps_counter' = 0)
      ]_vars

\* C15: however the streaming process ends by itself (return from main, or an
\* exception that leaves main), a socket that was created has been closed
\* and a pipeline that was started has been released.
C15_ReleasedOnEveryExit ==
    (Streaming /\ status \in {"exited", "aborted"}) =>
        /\ sock # "open"
        /\ pipe # "started"

LinesOf(kind) == {j \in Indices(log) : log[j].kind = kind}

\* C16: with the configured 424x240 RGB8 + Z16 streams every frame pair is
\* larger than 65,507 bytes and takes the oversize branch: sendto and the
\* throughput block are never reached, nothing is sent, fps_counter stays 0,
\* no report is emitted, and frame_count is the number of frames dropped.
C16_ConfiguredNeverSends ==
    /\ pc \notin {"sendto", "fps"}
    /\ sent = <<>>
    /\ fps_counter = 0
    /\ reports = <<>>
    /\ LinesOf("fps report") = {}
    /\ \A k \in Indices(built) :
          /\ built[k].rgb_size = 305280
          /\ built[k].depth_size = 203520
          /\ TooLarge(built[k])
    /\ pc = "wait" =>
          /\ frame_count = Cardinality(LinesOf("warning too large"))
          /\ frame_count = CompleteAcquired

\* C16 witness: two frame pairs dropped, the loop back at its head
C16_Witness ==
    /\ pc = "wait" /\ status = "running"
    /\ frame_count = 2
    /\ Cardinality(LinesOf("warning too large")) = 2
    /\ sent = <<>> /\ fps_counter = 0

\* C17: a wait_for_frames call that returns a frameset lacking its color or
\* its depth frame leaves the loop at its head and changes nothing of the
\* session: frame_count, fps_counter and last_fps_time keep their values, no
\* header or packet is built, nothing is sent and nothing is printed.
C17_IncompleteFramesetSkipped ==
    [][ (Streaming /\ pc = "wait" /\ acquired' # acquired
            /\ ~Complete(acquired'[Len(acquired')])) =>
            /\ pc' = "wait"
            /\ status' = "running"
            /\ UNCHANGED <<frame_count, fps_counter, last_fps_time, header,
                           total_size, built, sent, window_ok, reports, log>>
      ]_vars

\* C17 witness: a frame_id-less frameset between two frames: the frameset
\* before it got frame_id 0, the one after it gets frame_id 1
C17_Witness ==
    /\ Streaming /\ pc = "packet"
    /\ Len(acquired) = 3
    /\ Complete(acquired[1]) /\ ~Complete(acquired[2]) /\ Complete(acquired[3])
    /\ header.frame_id = 1

Saving == prog = "10s-save"
DeadlineMs == capture_duration * 1000
FilesOf(k) == {f \in files : f.frameset = k}
ExpectedFiles(fs) == (IF fs.color THEN 2 ELSE 0) + (IF fs.depth THEN 3 ELSE 0)

\* C18: in persistence mode the capture loop ends: a frameset is acquired
\* only in an iteration whose deadline check, made at its start, found less
\* than 10 seconds elapsed; once the check finds 10 seconds or more the only
\* steps are out of the loop and to exit code 0 (EXIT_SUCCESS), with no
\* further frameset; no step of the loop other than wait_for_frames can
\* block; and every frameset acquired is fully saved, also one whose wait
\* returned after the deadline.
C18_CaptureLoopTerminates ==
    /\ [](Saving =>
            /\ (pc \in {"s_wait", "s_write", "s_progress"} =>
                    current_time - start_time < DeadlineMs)
            /\ \A k \in Indices(acquired) :
                    (k < Len(acquired) \/ pc # "s_write") =>
                        Cardinality(FilesOf(k)) = ExpectedFiles(acquired[k])
            /\ ((status = "running" /\ pc # "s_wait") => ENABLED SaveNext)
            /\ ((status = "exited" /\ device_error = "none") =>
                    /\ exit_code = 0
                    /\ now - start_time >= DeadlineMs))
    /\ [][ Saving =>
            /\ (acquired' # acquired => current_time - start_time < DeadlineMs)
            /\ (pc = "s_check" /\ now - start_time >= DeadlineMs) =>
                    (pc' = "s_finish" /\ acquired' = acquired /\ files' = files)
            /\ (pc = "s_finish") =>
                    /\ status' = "exited" /\ exit_code' = 0
                    /\ acquired' = acquired /\ files' = files
         ]_vars

\* C18 witness: exit with success after a frameset whose iteration started
\* before the deadline, whose wait returned at or after it, and which is saved
C18_Witness ==
    /\ Saving /\ status = "exited" /\ exit_code = 0
    /\ acquired # <<>>
    /\ timestamp - start_time < DeadlineMs
    /\ now - start_time >= DeadlineMs
    /\ Complete(acquired[Len(acquired)])
    /\ Cardinality(FilesOf(Len(acquired))) = 5

\* the value of a string of decimal digits
DigitValue(c) == CHOOSE d \in 0..9 : Digit(d) = c
RECURSIVE ParseDecimal(_)
ParseDecimal(ds) ==
    IF ds = <<>> THEN 0
    ELSE 10 * ParseDecimal(SubSeq(ds, 1, Len(ds) - 1)) + DigitValue(ds[Len(ds)])
\* the pieces of a path: directory, "/frame_", six digits, "_", the
\* timestamp's digits, "_", the stream name, the extension
NumberPart(p) == SubSeq(p, 3, 8)
TimestampPart(p) == SubSeq(p, 10, Len(p) - 3)

\* C19: the frame number in the file names is 1 for the first frameset after
\* stabilization and grows by 1 per frameset acquired; all files of one
\* frameset carry that six-digit number and one millisecond timestamp; no
\* two framesets write a file of the same path.
C19_FileNamesPerFrameset ==
    Saving =>
        /\ (pc \in {"s_check", "s_wait", "s_write", "s_progress", "s_finish"} =>
                frame_count = Len(acquired))
        /\ \A f \in files :
              /\ f.path[2] = "/frame_" /\ f.path[9] = "_"
              /\ ParseDecimal(NumberPart(f.path)) = f.frameset
              /\ f.frameset \in Indices(acquired)
        /\ \A f, g \in files :
              /\ f.frameset = g.frameset =>
                    /\ NumberPart(f.path) = NumberPart(g.path)
                    /\ TimestampPart(f.path) = TimestampPart(g.path)
              /\ f.frameset # g.frameset => f.path # g.path

\* C19 witness: two complete framesets saved with the same millisecond
\* timestamp, ten files in all
C19_Witness ==
    /\ Saving
    /\ Cardinality(files) = 10
    /\ \E f, g \in files :
          /\ f.frameset = 1 /\ g.frameset = 2
          /\ TimestampPart(f.path) = TimestampPart(g.path)
          /\ NumberPart(f.path) = <<"0", "0", "0", "0", "0", "1">>
          /\ NumberPart(g.path) = <<"0", "0", "0", "0", "0", "2">>

Spec == Init /\ [][Next]_vars

SpecConfigured == InitConfigured /\ [][NextConfigured]_vars

====
